---- MODULE Spec2Model ----
(***************************************************************************)
(* Session lifecycle and playback state of the Haivision Connect DVR       *)
(* companion module, in three of its versions:                             *)
(*   - the v1.0.5 module     (src/unnamed/part_003), definitions *_105     *)
(*   - ConnectDvrInstance    (src/unnamed/part_002), definitions *_dvr     *)
(*   - the v1.0.0 module     (src/index.js),         definitions *_100     *)
(* Every handler runs to completion on the single event loop, so a handler *)
(* (with every call it makes) is one action.  An async function is split   *)
(* at its await: the part before the await is one action, the continuation *)
(* after the awaited HTTP request settles is another.                      *)
(*                                                                         *)
(* Handlers are written as operators from a state record to a state record *)
(* so that the calls of the source compose in the order of the source.     *)
(***************************************************************************)
EXTENDS Integers, FiniteSets, Sequences, TLC

\* ---- bounds of the model -------------------------------------------------
MaxLoginReqs == 2   \* login POSTs that can be in flight at the same time
MaxSockets   == 2   \* socket.io connections that can be open at the same time
MaxTimers    == 2   \* setTimeout handles that can be pending at the same time
MaxPending   == 2   \* DELETE (resp. PUT) requests awaiting their response
MaxTokens    == 2   \* distinct session ids the device hands out
MaxChannels  == 2   \* channel ids the device can report
MaxTicks     == 4   \* the clock stops after this many device update periods
MaxSeek      == 30  \* skips stop once they would leave -MaxSeek..MaxSeek
MaxAcks      == 1   \* loads whose acknowledgement a socket can be awaiting
MaxHours     == 24  \* largest hours field of a time text
MaxFetches   == 2   \* preview GETs that can be awaiting their answer
MaxRefresh   == 2   \* preview refresh timers that can be pending
MaxToggles   == 2   \* toggles play() and pause() send between two reports

\* ---- program constants ---------------------------------------------------
RECONNECT_TIMEOUT == 10
REBOOT_WAIT_TIME  == 210
MIN_BUFFER_TIME   == 25
LIVE_WINDOW       == 15000  \* is_live: (new Date - last_duration_change) <= 15000
CLOUD_UPDATE      == 5000   \* "Cloud updates should be sent every 5 seconds or so"

\* JavaScript null / undefined; ids and tokens are positive
null      == 0
undefined == 0

ChannelIds == 1..MaxChannels
ReqIds    == 1..MaxLoginReqs
SocketIds == 1..MaxSockets
TimerIds  == 1..MaxTimers
RefreshIds == 1..MaxRefresh
Tokens    == 1..MaxTokens

\* config.host / config.username / config.password set (truthy) or not
Configs == { [host |-> FALSE, username |-> FALSE, password |-> FALSE],
             [host |-> TRUE,  username |-> FALSE, password |-> FALSE],
             [host |-> TRUE,  username |-> TRUE,  password |-> TRUE ] }

\* arguments socket.io hands to a connect_error listener: the Error of the
\* failed engine, or the string 'timeout'
ConnectErrorArgs == {"Error", "timeout"}

\* JavaScript truthiness of a listener argument
Truthy(v) == v \notin {"", "null", "undefined", "false"}

VARIABLES
    phase,          \* host lifecycle: "constructed", "running", "destroyed"
    config,         \* this.config
    status,         \* last value handed to this.status / this.updateStatus
    session_id,     \* this.session_id
    socket,         \* this.socket (id of the socket object, or undefined)
    sockets,        \* every socket object ever created: id -> its state
    reconnecting,   \* this.reconnecting (timer handle or null)
    timers,         \* timers that are armed and have not fired
    login_request,  \* this._login_request (v1.0.5 only)
    logins,         \* login POSTs whose callback / promise has not settled
    deletes,        \* session DELETEs awaiting their response
    puts,           \* reboot PUTs awaiting their response
    faults,         \* exceptions that left a handler uncaught
    now,            \* the clock read by new Date (ms)
    channels,       \* this.channels: channel id -> record of device fields
    player_status,  \* this.player_status: record of device fields
    cur_channel,    \* this.cur_channel
    cur_time,       \* this.cur_time: <<>> for null, <<t>> for the number t
    cuepoints,      \* this.cuepoints: slot -> [channel, time, image]
    image,          \* this.image
    fetching,       \* preview GETs on the wire whose callback is still to run
    image_refresh,  \* this._image_refresh (v1.0.5): null or a timer handle
    refreshes,      \* preview refresh timers that are armed and have not fired
    acks,           \* per socket, the loads sent with an acknowledgement
                    \* callback that the device has not acknowledged
    variables,      \* values published with setVariable
    emitted,        \* what the last handler emitted on this.socket
    returned,       \* what the last command returned
    lastChange,     \* history: per channel id, << >> or <<the time of the last
                    \* delta since the snapshot that changed its duration>>
    toggles         \* history: the toggles play() and pause() have sent since
                    \* the device last reported on the player

vars == << phase, config, status, session_id, socket, sockets, reconnecting,
           timers, login_request, logins, deletes, puts, faults,
           now, channels, player_status, cur_channel, cur_time, cuepoints,
           image, fetching, image_refresh, refreshes, acks, variables, emitted,
           returned, lastChange, toggles >>

\* the instance as one record when a handler starts (nothing emitted or
\* returned yet), and its write-back
Cur == [ phase |-> phase, config |-> config, status |-> status,
         session_id |-> session_id, socket |-> socket, sockets |-> sockets,
         reconnecting |-> reconnecting, timers |-> timers,
         login_request |-> login_request, logins |-> logins,
         deletes |-> deletes, puts |-> puts, faults |-> faults,
         now |-> now, channels |-> channels, player_status |-> player_status,
         cur_channel |-> cur_channel, cur_time |-> cur_time,
         cuepoints |-> cuepoints, image |-> image, fetching |-> fetching,
         image_refresh |-> image_refresh, refreshes |-> refreshes,
         acks |-> acks, variables |-> variables,
         emitted |-> << >>, returned |-> "undefined",
         lastChange |-> lastChange, toggles |-> toggles ]

Commit(s) ==
    /\ phase' = s.phase
    /\ config' = s.config
    /\ status' = s.status
    /\ session_id' = s.session_id
    /\ socket' = s.socket
    /\ sockets' = s.sockets
    /\ reconnecting' = s.reconnecting
    /\ timers' = s.timers
    /\ login_request' = s.login_request
    /\ logins' = s.logins
    /\ deletes' = s.deletes
    /\ puts' = s.puts
    /\ faults' = s.faults
    /\ now' = s.now
    /\ channels' = s.channels
    /\ player_status' = s.player_status
    /\ cur_channel' = s.cur_channel
    /\ cur_time' = s.cur_time
    /\ cuepoints' = s.cuepoints
    /\ image' = s.image
    /\ fetching' = s.fetching
    /\ image_refresh' = s.image_refresh
    /\ refreshes' = s.refreshes
    /\ acks' = s.acks
    /\ variables' = s.variables
    /\ emitted' = s.emitted
    /\ returned' = s.returned
    /\ lastChange' = s.lastChange
    /\ toggles' = s.toggles

\* a JavaScript object with no own property
EmptyObject == [k \in {} |-> 0]

\* the fields the constructor sets for playback, before any device data
NoPlayback ==
    /\ now = 0
    /\ channels = EmptyObject
    /\ player_status = EmptyObject
    /\ cur_channel = null
    /\ cur_time = << >>
    /\ cuepoints = EmptyObject
    /\ image = null
    /\ fetching = 0
    /\ image_refresh = null
    /\ refreshes = {}
    /\ acks = [k \in SocketIds |-> 0]
    /\ emitted = << >>
    /\ returned = "undefined"
    /\ lastChange = [id \in ChannelIds |-> << >>]
    /\ toggles = 0

\* ---- JavaScript values ----------------------------------------------------
\* 'k' in o
Has(o, k) == k \in DOMAIN o

\* {...a, ...b}: the properties of a, overwritten and extended by those of b
Spread(a, b) == b @@ a

\* A time that may be missing is a tuple: << >> for null and for the blank
\* text '', <<t>> for the number t.  A time text 'h:m:s' is the tuple of its
\* colon-separated fields, each field the integer parseInt reads from it.
Num(t) == t[1]

Max(a, b) == IF a >= b THEN a ELSE b

\* this.setVariable(name, value)
setVariable(s, name, value) ==
    [s EXCEPT !.variables = (name :> value) @@ @]

\* initVariables(): the three published times start as '00:00:00'
initVariables(s) ==
    [s EXCEPT !.variables = [time |-> << 0, 0, 0 >>, duration |-> << 0, 0, 0 >>,
                             remaining |-> << 0, 0, 0 >>]]

\* this.socket.emit('sendAndCallback2', ...args)
emit(s, args) == [s EXCEPT !.emitted = Append(@, args)]

\* return value
return(s, value) == [s EXCEPT !.returned = value]

\* ---- allocation of ids ---------------------------------------------------
Least(S) == CHOOSE i \in S : \A j \in S : i <= j

FreeReqs(s)    == ReqIds \ { r.id : r \in s.logins }
FreeSockets(s) == { k \in SocketIds : s.sockets[k] = "closed" }
FreeTimers(s)  == TimerIds \ { t.id : t \in s.timers }
OpenSockets(s) == { k \in SocketIds : s.sockets[k] # "closed" }

\* setTimeout(..., timeout * 1000): a new pending timer, its handle returned
setTimeout(s, timeout) ==
    [s EXCEPT !.timers = @ \cup {[id |-> Least(FreeTimers(s)), timeout |-> timeout]}]

\* clearTimeout(handle): no effect on a timer that has fired already
clearTimeout(s, handle) ==
    [s EXCEPT !.timers = { t \in @ : t.id # handle }]

(***************************************************************************)
(*                    v1.0.5  (src/unnamed/part_003)                       *)
(***************************************************************************)

\* variant: tearing the connection down forgets the playback position
_endConnection_105_clearsTime(s) ==
    LET s1 == [s EXCEPT !.refreshes = @ \ {s.image_refresh}]
    IN  IF s.socket # undefined
        THEN [s1 EXCEPT !.sockets[s.socket] = "closed", !.acks[s.socket] = 0,
                        !.socket = undefined, !.cur_time = << >>]
        ELSE [s1 EXCEPT !.cur_time = << >>]

\* clearTimeout(this._image_refresh) has no effect on a timer that has fired
\* and leaves the handle as it is; socket.close(): the acknowledgement
\* callbacks the socket holds are never called
_endConnection_105(s) ==
    LET s1 == [s EXCEPT !.refreshes = @ \ {s.image_refresh}]
    IN  IF s.socket # undefined
        THEN [s1 EXCEPT !.sockets[s.socket] = "closed", !.acks[s.socket] = 0,
                        !.socket = undefined]
        ELSE s1

keep_login_retry_105(s, timeout) ==
    IF s.reconnecting # null
    THEN s
    ELSE [setTimeout(s, timeout) EXCEPT !.reconnecting = Least(FreeTimers(s))]

\* request.abort(): the request stays on the wire until it settles, but the
\* request library never calls the callback of an aborted request
abort(s, req) ==
    [s EXCEPT !.logins = { IF r.id = req THEN [r EXCEPT !.aborted = TRUE] ELSE r
                           : r \in @ }]

\* _stopOldLogin forgetting the handle without clearTimeout
_stopOldLogin_105_keepsTimer(s) ==
    LET s1 == [s EXCEPT !.reconnecting = null]
    IN  IF s1.login_request # null
        THEN [abort(s1, s1.login_request) EXCEPT !.login_request = null]
        ELSE s1

\* _stopOldLogin forgetting the request without abort()
_stopOldLogin_105_noAbort(s) ==
    LET s1 == IF s.reconnecting # null
              THEN [clearTimeout(s, s.reconnecting) EXCEPT !.reconnecting = null]
              ELSE s
    IN  [s1 EXCEPT !.login_request = null]

_stopOldLogin_105(s) ==
    LET s1 == IF s.reconnecting # null
              THEN [clearTimeout(s, s.reconnecting) EXCEPT !.reconnecting = null]
              ELSE s
    IN  IF s1.login_request # null
        THEN [abort(s1, s1.login_request) EXCEPT !.login_request = null]
        ELSE s1

\* login(retry), up to the point where the POST is on the wire
login_105(s, retry) ==
    LET s1 == [s EXCEPT !.status = "WARNING"]
        s2 == _stopOldLogin_105(s1)
        r  == Least(FreeReqs(s2))
    IN  [s2 EXCEPT !.login_request = r,
                   !.logins = @ \cup {[id |-> r, retry |-> retry, aborted |-> FALSE]}]

initSocket_105(s) ==
    LET k == Least(FreeSockets(s))
    IN  [s EXCEPT !.status = "WARNING", !.socket = k, !.sockets[k] = "connecting"]

\* the callback of the login POST never asking for a retry
login_callback_105_noRetry(s, r, ok, tok) ==
    LET s0 == [s EXCEPT !.logins = @ \ {r}]
    IN  IF s0.login_request = null
        THEN s0
        ELSE LET s1 == [s0 EXCEPT !.login_request = null]
             IN  IF ~ok
                 THEN [s1 EXCEPT !.status = "ERROR"]
                 ELSE initSocket_105([s1 EXCEPT !.session_id = tok])

\* the callback of the login POST
login_callback_105(s, r, ok, tok) ==
    LET s0 == [s EXCEPT !.logins = @ \ {r}]
    IN  IF s0.login_request = null
        THEN s0
        ELSE LET s1 == [s0 EXCEPT !.login_request = null]
             IN  IF ~ok
                 THEN LET s2 == [s1 EXCEPT !.status = "ERROR"]
                      IN  IF r.retry
                          THEN keep_login_retry_105(s2, RECONNECT_TIMEOUT)
                          ELSE s2
                 ELSE initSocket_105([s1 EXCEPT !.session_id = tok])

_reconnect_105(s, retry_immediately) ==
    LET s1 == _endConnection_105([s EXCEPT !.status = "ERROR"])
    IN  IF retry_immediately
        THEN login_105(s1, TRUE)
        ELSE keep_login_retry_105(s1, RECONNECT_TIMEOUT)

\* logout sending the DELETE but keeping the token
logout_105_keepsToken(s) ==
    LET s1 == _endConnection_105(s)
    IN  IF s1.session_id = null
        THEN s1
        ELSE [s1 EXCEPT !.deletes = @ + 1]

logout_105(s) ==
    LET s1 == _endConnection_105(s)
    IN  IF s1.session_id = null
        THEN s1
        ELSE [s1 EXCEPT !.deletes = @ + 1, !.session_id = null]

\* variant: reboot arms the retry timer and leaves the connection open
reboot_105_keepsSocket(s) ==
    IF s.socket = undefined
    THEN s
    ELSE LET s1 == [s EXCEPT !.status = "ERROR", !.puts = @ + 1]
         IN  keep_login_retry_105(s1, REBOOT_WAIT_TIME)

reboot_105(s) ==
    IF s.socket = undefined
    THEN s
    ELSE LET s1 == [s EXCEPT !.status = "ERROR", !.puts = @ + 1]
             s2 == _endConnection_105(s1)
             s3 == [s2 EXCEPT !.session_id = null]
         IN  keep_login_retry_105(s3, REBOOT_WAIT_TIME)

\* variant: a configuration update forgets the cuepoints
updateConfig_105_clearsCuepoints(s, c) ==
    LET s1 == IF s.session_id # null THEN logout_105(s) ELSE s
        s2 == [s1 EXCEPT !.config = c, !.cuepoints = EmptyObject]
    IN  IF c.host /\ c.username /\ c.password
        THEN login_105(s2, TRUE)
        ELSE s2

updateConfig_105(s, c) ==
    LET s1 == IF s.session_id # null THEN logout_105(s) ELSE s
        s2 == [s1 EXCEPT !.config = c]
    IN  IF c.host /\ c.username /\ c.password
        THEN login_105(s2, TRUE)
        ELSE s2

init_105(s) ==
    LET s1 == initVariables([s EXCEPT !.status = "UNKNOWN"])
    IN  IF s1.config.host THEN login_105(s1, TRUE) ELSE s1

destroy_105(s) == logout_105(_stopOldLogin_105(s))

\* ---- playback state and commands of v1.0.5 -------------------------------
\* new Date(1000 * seconds).toISOString().substr(11, 8): the time of day of
\* that instant, as the fields <<hh, mm, ss>>
_userFriendlyTime(seconds) ==
    LET x == seconds % 86400
    IN  << x \div 3600, (x % 3600) \div 60, x % 60 >>

_toSeconds(formatted_time) ==
    IF formatted_time = << >>
    THEN << >>
    ELSE LET n  == Len(formatted_time)
             unparsed_time == [i \in 1..n |-> formatted_time[n + 1 - i]]
             t0 == unparsed_time[1]
             t3 == IF n = 3 THEN t0 + unparsed_time[3] * 3600 ELSE t0
             t2 == IF n \in {2, 3} THEN t3 + unparsed_time[2] * 60 ELSE t3
         IN  << t2 >>

_set_cur_time_105(s, time) ==
    setVariable([s EXCEPT !.cur_time = << time >>], "time", _userFriendlyTime(time))

set_live_channel_105(s, id) == [s EXCEPT !.cur_channel = id]

\* variant: stamps every delta that carries a duration
_channel_updates_105_stampsAlways(s, id, params) ==
    LET stamped == IF Has(params, "duration")
                   THEN ("last_duration_change" :> s.now) @@ params
                   ELSE params
        s1 == [s EXCEPT !.channels[id] = Spread(@, stamped)]
        duration == s1.channels[id].duration
        s2 == setVariable(s1, "duration", _userFriendlyTime(duration))
    IN  IF id # s1.cur_channel THEN s1
        ELSE IF Has(s1.player_status, "time")
        THEN setVariable(s2, "remaining",
                         _userFriendlyTime(duration - s1.player_status.time))
        ELSE s2

_channel_updates_105(s, id, params) ==
    LET stamped == IF /\ Has(params, "duration")
                      /\ \/ ~Has(s.channels[id], "duration")
                         \/ s.channels[id].duration # params.duration
                   THEN ("last_duration_change" :> s.now) @@ params
                   ELSE params
        s1 == [s EXCEPT !.channels[id] = Spread(@, stamped)]
        duration == s1.channels[id].duration
        s2 == setVariable(s1, "duration", _userFriendlyTime(duration))
    IN  IF id # s1.cur_channel THEN s1
        ELSE IF Has(s1.player_status, "time")
        THEN setVariable(s2, "remaining",
                         _userFriendlyTime(duration - s1.player_status.time))
        ELSE s2

_isConnected_105(s) == s.socket # undefined

is_playing_105(s) == Has(s.player_status, "playing") /\ s.player_status.playing

\* get_latest_image(): the timer of the handle is cleared, and request.get is
\* on the wire when it returns.  GETs that are on the wire are not aborted
get_latest_image_105(s) ==
    LET s1 == [s EXCEPT !.refreshes = @ \ {s.image_refresh}]
    IN  IF ~_isConnected_105(s1) THEN s1 ELSE [s1 EXCEPT !.fetching = @ + 1]

\* setImage(image): a new timer is armed while the player is reported
\* playing, its handle stored over the handle held before
setImage_105(s, buffer) ==
    LET s1 == [s EXCEPT !.image = buffer]
        t  == Least(RefreshIds \ s.refreshes)
    IN  IF is_playing_105(s1)
        THEN [s1 EXCEPT !.refreshes = @ \cup {t}, !.image_refresh = t]
        ELSE s1

\* args is an object
_player_updates_105(s, args) ==
    LET s1 == [s EXCEPT !.player_status = Spread(@, args)]
        s2 == IF Has(args, "time") THEN _set_cur_time_105(s1, args.time) ELSE s1
        s3 == IF Has(args, "active_channel_id")
              THEN set_live_channel_105(s2, args.active_channel_id)
              ELSE s2
    IN  IF Has(args, "playing") THEN get_latest_image_105(s3) ELSE s3

\* variant: keeps the records of the previous channel map
device_init_105_keepsChannels(s, player, channel) ==
    LET s2 == IF Has(player, "active_channel_id")
              THEN set_live_channel_105([s EXCEPT !.player_status = player],
                                        player.active_channel_id)
              ELSE [s EXCEPT !.player_status = player]
        s3 == IF Has(player, "time") THEN _set_cur_time_105(s2, player.time) ELSE s2
    IN  get_latest_image_105([s3 EXCEPT !.channels = channel @@ @])

\* variant: the snapshot stamps the duration of every record it stores
device_init_105_stampsChannels(s, player, channel) ==
    LET s1 == [s EXCEPT !.channels = EmptyObject, !.player_status = player]
        s2 == IF Has(player, "active_channel_id")
              THEN set_live_channel_105(s1, player.active_channel_id)
              ELSE s1
        s3 == IF Has(player, "time") THEN _set_cur_time_105(s2, player.time) ELSE s2
    IN  get_latest_image_105(
           [s3 EXCEPT !.channels =
               [id \in DOMAIN channel |->
                   ("last_duration_change" :> s.now) @@ channel[id]]])

\* data.player is the player block, data.channel the list of ids and data[id]
\* the record of each listed id; actions() and initFeedbacks() read the state
device_init_105(s, player, channel) ==
    LET s1 == [s EXCEPT !.channels = EmptyObject, !.player_status = player]
        s2 == IF Has(player, "active_channel_id")
              THEN set_live_channel_105(s1, player.active_channel_id)
              ELSE s1
        s3 == IF Has(player, "time") THEN _set_cur_time_105(s2, player.time) ELSE s2
    IN  get_latest_image_105([s3 EXCEPT !.channels = channel])

_is_valid_channel_105(s, id) == Has(s.channels, id)

play_pause_105(s) ==
    IF ~_isConnected_105(s)
    THEN return(s, "false")
    ELSE return(emit(s, << "playback:togglePlayState" >>), "true")

is_live_105(s, id) ==
    /\ _is_valid_channel_105(s, id)
    /\ Has(s.channels[id], "last_duration_change")
    /\ s.now - s.channels[id].last_duration_change <= LIVE_WINDOW

\* variant: the live edge is not clamped again
_get_new_init_time_105_noReclamp(s, id, init_time) ==
    LET duration == s.channels[id].duration
    IN  IF init_time = << >>
        THEN _set_cur_time_105(s, IF ~is_live_105(s, id) THEN 0 ELSE duration)
        ELSE _set_cur_time_105(s, IF Num(init_time) > duration - MIN_BUFFER_TIME
                                  THEN Max(0, duration - MIN_BUFFER_TIME)
                                  ELSE Num(init_time))

_get_new_init_time_105(s, id, init_time) ==
    LET duration == s.channels[id].duration
        t1 == IF init_time = << >>
              THEN IF ~is_live_105(s, id) THEN 0 ELSE duration
              ELSE Num(init_time)
        t2 == IF t1 > duration - MIN_BUFFER_TIME
              THEN IF duration - MIN_BUFFER_TIME <= 0
                   THEN 0
                   ELSE duration - MIN_BUFFER_TIME
              ELSE t1
    IN  _set_cur_time_105(s, t2)

load_channel_105(s, id, init_time, callback) ==
    IF ~_isConnected_105(s) THEN return(s, "false")
    ELSE IF ~_is_valid_channel_105(s, id) THEN return(s, "false")
    ELSE LET s1 == _get_new_init_time_105(s, id, init_time)
             s2 == emit(s1, << "playback:loadChannel", id, Num(s1.cur_time), callback >>)
             s3 == IF callback = "null" THEN s2 ELSE [s2 EXCEPT !.acks[s.socket] = @ + 1]
         IN  return(set_live_channel_105(s3, id), "true")

\* variant: only the current channel is tested
is_currently_active_105_channelOnly(s) == s.cur_channel # null

\* !this.cur_channel || !this.cur_time
is_currently_active_105(s) ==
    ~ (s.cur_channel = null \/ s.cur_time = << >> \/ s.cur_time = << 0 >>)

skip_live_105(s, time) ==
    IF ~is_currently_active_105(s)
    THEN return(s, "false")
    ELSE return(load_channel_105(s, s.cur_channel, << Num(s.cur_time) + time >>, "null"),
                "true")

\* variant: a slot that holds a cuepoint keeps it
set_cuepoint_105_keepsPrior(s, cuepoint_id) ==
    IF ~is_currently_active_105(s)
    THEN return(s, "false")
    ELSE [s EXCEPT !.cuepoints =
             @ @@ (cuepoint_id :> [channel |-> s.cur_channel, time |-> s.cur_time,
                                   image |-> s.image])]

set_cuepoint_105(s, cuepoint_id) ==
    IF ~is_currently_active_105(s)
    THEN return(s, "false")
    ELSE [s EXCEPT !.cuepoints =
             (cuepoint_id :> [channel |-> s.cur_channel, time |-> s.cur_time,
                              image |-> s.image]) @@ @]

\* variant: an empty slot recalls the current position
recall_cuepoint_105_loadsCurrent(s, cuepoint_id, play_state) ==
    LET cuepoint == IF Has(s.cuepoints, cuepoint_id)
                    THEN s.cuepoints[cuepoint_id]
                    ELSE [channel |-> s.cur_channel, time |-> s.cur_time]
    IN  return(load_channel_105(s, cuepoint.channel, cuepoint.time,
                                IF play_state = "pause" THEN "play_pause" ELSE "null"),
               "undefined")

\* variant: the toggle is sent with the load instead of on its acknowledgement
recall_cuepoint_105_togglesAtOnce(s, cuepoint_id, play_state) ==
    IF ~Has(s.cuepoints, cuepoint_id)
    THEN return(s, "false")
    ELSE LET cuepoint == s.cuepoints[cuepoint_id]
             s1 == load_channel_105(s, cuepoint.channel, cuepoint.time, "null")
         IN  return(IF play_state = "pause" THEN play_pause_105(s1) ELSE s1,
                    "undefined")

recall_cuepoint_105(s, cuepoint_id, play_state) ==
    IF ~Has(s.cuepoints, cuepoint_id)
    THEN return(s, "false")
    ELSE LET cuepoint == s.cuepoints[cuepoint_id]
         IN  return(load_channel_105(s, cuepoint.channel, cuepoint.time,
                                     IF play_state = "pause" THEN "play_pause" ELSE "null"),
                    "undefined")

\* play() and pause() return nothing
play_105(s) ==
    IF ~is_playing_105(s) /\ s.cur_channel # null
    THEN return(play_pause_105(s), "undefined")
    ELSE s

pause_105(s) ==
    IF is_playing_105(s) /\ s.cur_channel # null
    THEN return(play_pause_105(s), "undefined")
    ELSE s

\* action(): what each case of the switch runs; opt is action.options with the
\* variables of its text fields already substituted
action_105(s, action, opt) ==
    CASE action = "playpause" -> return(play_pause_105(s), "undefined")
      [] action = "play" -> play_105(s)
      [] action = "pause" -> pause_105(s)
      [] action = "channel" ->
            return(load_channel_105(s, opt.channel, _toSeconds(opt.initial_time), "null"),
                   "undefined")
      [] action = "goto" ->
            IF s.cur_channel = null
            THEN s
            ELSE return(load_channel_105(s, s.cur_channel, _toSeconds(opt.time), "null"),
                        "undefined")
      [] action = "skip" -> return(skip_live_105(s, opt.skip_time), "undefined")
      [] action = "set_cuepoint" ->
            return(set_cuepoint_105(s, opt.cuepoint_id), "undefined")
      [] action = "recall_cuepoint" ->
            return(recall_cuepoint_105(s, opt.cuepoint_id, opt.play_state), "undefined")
      [] action = "reboot" -> reboot_105(s)

\* .on('model:delta', (type, arg1) => ...) for type 'player' and for any
\* other type
on_model_delta_player_105(s, arg1) == _player_updates_105(s, arg1)

\* variant: a delta for a scope outside the map starts a record for it
on_model_delta_other_105_createsEntry(s, type, arg1) ==
    IF Has(s.channels, type)
    THEN _channel_updates_105(s, type, arg1)
    ELSE [s EXCEPT !.channels = (type :> arg1) @@ @]

on_model_delta_other_105(s, type, arg1) ==
    IF Has(s.channels, type) THEN _channel_updates_105(s, type, arg1) ELSE s

\* ---- actions of v1.0.5 ---------------------------------------------------
\* room, within the bounds, for what a handler may allocate
ReqRoom(s)    == FreeReqs(s) # {}
SocketRoom(s) == FreeSockets(s) # {}
TimerRoom(s)  == FreeTimers(s) # {}

Init105 ==
    /\ phase = "constructed"
    /\ config \in Configs
    /\ status = "UNKNOWN"
    /\ session_id = null
    /\ socket = undefined
    /\ sockets = [k \in SocketIds |-> "closed"]
    /\ reconnecting = null
    /\ timers = {}
    /\ login_request = null
    /\ logins = {}
    /\ deletes = 0
    /\ puts = 0
    /\ faults = {}
    /\ NoPlayback
    /\ variables = EmptyObject

HostInit105 ==
    /\ phase = "constructed"
    /\ ReqRoom(Cur)
    /\ Commit([init_105(Cur) EXCEPT !.phase = "running"])

HostUpdateConfig105 ==
    /\ phase = "running"
    /\ ReqRoom(Cur)
    /\ deletes < MaxPending \/ session_id = null
    /\ \E c \in Configs : Commit(updateConfig_105(Cur, c))

HostReboot105 ==
    /\ phase = "running"
    /\ TimerRoom(Cur)
    /\ puts < MaxPending \/ socket = undefined
    /\ Commit(reboot_105(Cur))

HostDestroy105 ==
    /\ phase = "running"
    /\ deletes < MaxPending \/ session_id = null
    /\ Commit([destroy_105(Cur) EXCEPT !.phase = "destroyed"])

\* the retry timer fires: setTimeout's callback is login.bind(this, true)
TimerFires105 ==
    /\ ReqRoom(Cur)
    /\ \E t \in timers :
          Commit(login_105([Cur EXCEPT !.timers = @ \ {t}], TRUE))

LoginResponse105(r, ok, tok) ==
    /\ r \in logins
    /\ ~r.aborted
    /\ (IF ok THEN SocketRoom(Cur) ELSE TimerRoom(Cur))
    /\ Commit(login_callback_105(Cur, r, ok, tok))

LoginSucceeds105 ==
    \E r \in logins, tok \in Tokens : LoginResponse105(r, TRUE, tok)

LoginFails105 ==
    \E r \in logins : LoginResponse105(r, FALSE, null)

SocketConnect105 ==
    \E k \in SocketIds :
       /\ sockets[k] = "connecting"
       /\ Commit([Cur EXCEPT !.sockets[k] = "connected", !.status = "OK"])

\* .on('connect_error', this._reconnect.bind(this)): the listener's first
\* argument, the error, arrives as retry_immediately
SocketConnectError105 ==
    \E k \in SocketIds, err \in ConnectErrorArgs :
       /\ sockets[k] # "closed"
       /\ ReqRoom(Cur) /\ TimerRoom(Cur)
       /\ Commit(_reconnect_105(Cur, Truthy(err)))

\* .on('logout', this._reconnect.bind(this, true))
SocketLogoutPush105 ==
    \E k \in SocketIds :
       /\ sockets[k] = "connected"
       /\ ReqRoom(Cur)
       /\ Commit(_reconnect_105(Cur, TRUE))

\* an aborted login POST settles: no callback runs
AbortedLoginSettles105 ==
    \E r \in logins :
       /\ r.aborted
       /\ Commit([Cur EXCEPT !.logins = @ \ {r}])

\* the callbacks of the DELETE and of the PUT only write to the log
DeleteResponse105 ==
    /\ deletes > 0
    /\ Commit([Cur EXCEPT !.deletes = @ - 1])

RebootResponse105 ==
    /\ puts > 0
    /\ Commit([Cur EXCEPT !.puts = @ - 1])

Next105 ==
    \/ HostInit105
    \/ HostUpdateConfig105
    \/ HostReboot105
    \/ HostDestroy105
    \/ TimerFires105
    \/ LoginSucceeds105
    \/ LoginFails105
    \/ AbortedLoginSettles105
    \/ SocketConnect105
    \/ SocketLogoutPush105
    \/ SocketConnectError105
    \/ DeleteResponse105
    \/ RebootResponse105

Spec105 == Init105 /\ [][Next105]_vars

\* ---- what the device sends and what the operator asks ---------------------
Durations  == {20, 100}

\* the properties of r named in K
Pick(r, K) == [k \in K |-> r[k]]

\* a channel record of a snapshot, and the channel maps a snapshot can carry:
\* the device has set up the channels 1..n
ChannelRecords == [duration : Durations]
ChannelMaps    == { [id \in 1..n |-> r] : n \in 0..MaxChannels, r \in ChannelRecords }

\* objects with some of the fields time and active_channel_id
PlayerObjects(times) ==
    { Pick(r, K) : r \in [time : times, active_channel_id : ChannelIds],
                   K \in SUBSET {"time", "active_channel_id"} }

\* the parameters of a channel delta: a new duration, or none
ChannelParams == { Pick(r, K) : r \in ChannelRecords, K \in SUBSET {"duration"} }

\* a socket that has connected delivers the device's events
Delivering == \E k \in SocketIds : sockets[k] = "connected"

\* time passes
Tick(step) ==
    /\ now + step <= MaxTicks * CLOUD_UPDATE
    /\ Commit([Cur EXCEPT !.now = @ + step])

\* request.get is given no timeout: a preview GET that the device leaves
\* without an answer never calls back.  s is the state a handler leaves when
\* the GETs it sent are of that kind
Unanswered(s) == [s EXCEPT !.fetching = fetching]

\* room for the GET a handler sends when a socket exists
FetchRoom == fetching < MaxFetches

\* data:init arrives with this player block and these channel records; the
\* preview GET it sends is never answered
Snapshot105(player, channel) ==
    /\ Delivering
    /\ Commit(Unanswered([device_init_105(Cur, player, channel)
                 EXCEPT !.lastChange = [id \in ChannelIds |-> << >>],
                        !.toggles = 0]))

DataInit105(players, maps) ==
    \E player \in players, channel \in maps : Snapshot105(player, channel)

\* data:init arrives, and the preview GET it sends will be answered
SnapshotFetch105(player, channel) ==
    /\ Delivering
    /\ FetchRoom
    /\ Commit([device_init_105(Cur, player, channel)
                 EXCEPT !.lastChange = [id \in ChannelIds |-> << >>],
                        !.toggles = 0])

DataInitFetch105(players, maps) ==
    \E player \in players, channel \in maps : SnapshotFetch105(player, channel)

\* model:delta arrives for the player; the preview GET it sends, if any, is
\* never answered
PlayerUpdate105(args) ==
    /\ Delivering
    /\ Commit(Unanswered([on_model_delta_player_105(Cur, args)
                             EXCEPT !.toggles = 0]))

PlayerDelta105(objects) ==
    \E args \in objects : PlayerUpdate105(args)

\* model:delta arrives for the player, and the preview GET it sends, if any,
\* will be answered
PlayerUpdateFetch105(args) ==
    /\ Delivering
    /\ FetchRoom
    /\ Commit([on_model_delta_player_105(Cur, args) EXCEPT !.toggles = 0])

PlayerDeltaFetch105(objects) ==
    \E args \in objects : PlayerUpdateFetch105(args)

\* model:delta arrives for the scope id
ChannelUpdate105(id, params) ==
    /\ Delivering
    /\ Commit([on_model_delta_other_105(Cur, id, params)
                 EXCEPT !.lastChange =
                    IF /\ Has(channels, id)
                       /\ Has(params, "duration")
                       /\ channels[id].duration # params.duration
                    THEN [@ EXCEPT ![id] = << now >>]
                    ELSE @])

ChannelDelta105(ids, params) ==
    \E id \in ids, p \in params : ChannelUpdate105(id, p)

HostPlayPause105 ==
    /\ phase = "running"
    /\ Commit(play_pause_105(Cur))

\* the operator's commands
LoadChannel105(id, init_time) ==
    /\ phase = "running"
    /\ Commit(load_channel_105(Cur, id, init_time, "null"))

HostLoadChannel105(ids, times) ==
    \E id \in ids, init_time \in times : LoadChannel105(id, init_time)

SkipLive105(time) ==
    /\ phase = "running"
    /\ cur_time # << >> => Num(cur_time) + time \in -MaxSeek..MaxSeek
    /\ Commit(skip_live_105(Cur, time))

HostSkipLive105(skips) ==
    \E time \in skips : SkipLive105(time)

HostSetCuepoint105(slots) ==
    \E slot \in slots :
       /\ phase = "running"
       /\ Commit(set_cuepoint_105(Cur, slot))

RecallCuepoint105(slot, play_state) ==
    /\ phase = "running"
    /\ socket # undefined => acks[socket] < MaxAcks
    /\ Commit(recall_cuepoint_105(Cur, slot, play_state))

HostRecallCuepoint105(slots, play_states) ==
    \E slot \in slots, play_state \in play_states :
       RecallCuepoint105(slot, play_state)

\* the device acknowledges a load sent with a callback: socket k runs the
\* callback, this.play_pause
LoadAck105 ==
    \E k \in SocketIds :
       /\ sockets[k] = "connected"
       /\ acks[k] > 0
       /\ Commit(play_pause_105([Cur EXCEPT !.acks[k] = @ - 1]))

\* a preview GET completes: sharp hands over the resized image, or the body
\* cannot be processed and the image is null.  Either way setImage runs
PreviewArrives105(images) ==
    \E img \in images :
       /\ fetching > 0
       /\ is_playing_105(Cur) => refreshes # RefreshIds
       /\ Commit(setImage_105([Cur EXCEPT !.fetching = @ - 1], img))

\* a preview refresh timer fires: get_latest_image runs
RefreshFires105 ==
    \E t \in refreshes :
       /\ FetchRoom
       /\ Commit(get_latest_image_105([Cur EXCEPT !.refreshes = @ \ {t}]))

\* a command ran: the toggles it sent are counted
Counted(s) == [s EXCEPT !.toggles = @ + Len(s.emitted)]

\* the 'play' and 'pause' actions
HostPlay105 ==
    /\ phase = "running"
    /\ toggles < MaxToggles
    /\ Commit(Counted(action_105(Cur, "play", EmptyObject)))

HostPause105 ==
    /\ phase = "running"
    /\ toggles < MaxToggles
    /\ Commit(Counted(action_105(Cur, "pause", EmptyObject)))

\* the 'channel' and 'goto' actions, whose time is a text
TypedTime105(action, id, text) ==
    /\ phase = "running"
    /\ Commit(action_105(Cur, action,
                         [channel |-> id, initial_time |-> text, time |-> text]))

HostAction105(ids, texts) ==
    \E action \in {"channel", "goto"}, id \in ids, text \in texts :
       TypedTime105(action, id, text)

\* ---- playback on a connected v1.0.5 session ------------------------------
\* init() ran with a complete configuration, the login succeeded and the
\* socket connected; no device data has arrived yet
Connected105 ==
    /\ phase = "running"
    /\ config = [host |-> TRUE, username |-> TRUE, password |-> TRUE]
    /\ status = "OK"
    /\ session_id = 1
    /\ socket = 1
    /\ sockets = [k \in SocketIds |-> IF k = 1 THEN "connected" ELSE "closed"]
    /\ reconnecting = null
    /\ timers = {}
    /\ login_request = null
    /\ logins = {}
    /\ deletes = 0
    /\ puts = 0
    /\ faults = {}
    /\ NoPlayback
    /\ variables = initVariables([variables |-> EmptyObject]).variables

\* seeking: snapshots, deltas, loads at a numeric time and skips, with the
\* clock standing still
PlayerTimes == {15}
SeekTimes   == {<< -5 >>, << 5 >>, << 80 >>}
SkipTimes   == {-10, 10}

NextSeek105 ==
    \/ DataInit105(PlayerObjects(PlayerTimes), ChannelMaps)
    \/ PlayerDelta105(PlayerObjects(PlayerTimes))
    \/ ChannelDelta105(ChannelIds, ChannelParams)
    \/ HostLoadChannel105(ChannelIds, SeekTimes)
    \/ HostSkipLive105(SkipTimes)

Seek105 == Connected105 /\ [][NextSeek105]_vars

\* the clock: snapshots and channel deltas as time passes, and loads at the
\* blank time
NextClock105 ==
    \/ Tick(CLOUD_UPDATE)
    \/ DataInit105({EmptyObject}, ChannelMaps)
    \/ ChannelDelta105(ChannelIds, ChannelParams)
    \/ HostLoadChannel105(ChannelIds, {<< >>})

Clock105 == Connected105 /\ [][NextClock105]_vars

\* ---- the whole v1.0.5 module: session and playback -----------------------
\* one channel set up on the device, one player time, one seek time, one
\* cuepoint slot
NextFull105 ==
    \/ Next105
    \/ DataInit105({[time |-> 15, active_channel_id |-> 1]},
                   {[id \in {1} |-> [duration |-> 100]]})
    \/ PlayerDelta105({[time |-> 15], [active_channel_id |-> 1]})
    \/ ChannelDelta105({1}, {[duration |-> 100]})
    \/ HostPlayPause105
    \/ HostLoadChannel105({1, 2}, {<< 15 >>})
    \/ HostSkipLive105({10})
    \/ HostAction105({1}, {<< 15 >>})
    \/ HostSetCuepoint105({1})
    \/ HostRecallCuepoint105({1}, {"play"})

Full105 == Init105 /\ [][NextFull105]_vars

\* ---- cuepoints on a connected v1.0.5 session -----------------------------
\* two slots; the device sets up channel 1, short or long, or no channel; the
\* preview is one of two images; a reboot ends the connection
CueSlots  == {1, 2}
CueImages == {1, 2}
CueMaps   == { EmptyObject, [id \in {1} |-> [duration |-> 20]],
               [id \in {1} |-> [duration |-> 100]] }

NextCue105 ==
    \/ DataInitFetch105({[time |-> 15, active_channel_id |-> 1]}, CueMaps)
    \/ PlayerDelta105({[time |-> 15], [active_channel_id |-> 2]})
    \/ HostLoadChannel105({1}, {<< 5 >>})
    \/ HostSetCuepoint105(CueSlots)
    \/ HostRecallCuepoint105(CueSlots, {"play", "pause"})
    \/ LoadAck105
    \/ PreviewArrives105(CueImages)
    \/ HostReboot105

Cue105 == Connected105 /\ [][NextCue105]_vars

\* ---- times typed as text -------------------------------------------------
\* the texts of the 'channel' and 'goto' actions: 'hh:mm:ss' with two-digit
\* fields, bare numbers of seconds, and the blank text
TimeTexts ==
    { << h, m, sec >> : h \in 0..MaxHours, m \in {0, 59}, sec \in {0, 59} }
       \cup { << 0 >>, << 90 >>, << >> }

\* a recording long enough that no typed time reaches its buffer
LongDuration == 100 * 3600

NextTimes105 ==
    \/ DataInit105({[active_channel_id |-> 1]},
                   {[id \in {1} |-> [duration |-> LongDuration]]})
    \/ HostAction105({1}, TimeTexts)

Times105 == Connected105 /\ [][NextTimes105]_vars

\* ---- play and pause on a connected v1.0.5 session ------------------------
\* the device reports the player playing or stopped some time after a toggle
NextPlay105 ==
    \/ DataInit105({EmptyObject, [active_channel_id |-> 1]},
                   {EmptyObject, [id \in {1} |-> [duration |-> 100]]})
    \/ PlayerDelta105({[playing |-> TRUE], [playing |-> FALSE]})
    \/ HostLoadChannel105({1, 2}, {<< 5 >>})
    \/ HostPlay105
    \/ HostPause105
    \/ HostPlayPause105

Play105 == Connected105 /\ [][NextPlay105]_vars

\* ---- the preview fetcher of v1.0.5 over the whole session ----------------
\* the device reports the player playing or stopped, in snapshots and in
\* deltas; every preview GET is answered sooner or later
PreviewPlayers == {EmptyObject, [playing |-> TRUE]}
PreviewDeltas  == {[playing |-> TRUE], [playing |-> FALSE]}
PreviewImages  == {null, 1}

NextPreview105 ==
    \/ Next105
    \/ DataInitFetch105(PreviewPlayers, {EmptyObject})
    \/ PlayerDeltaFetch105(PreviewDeltas)
    \/ PreviewArrives105(PreviewImages)
    \/ RefreshFires105

Preview105 == Init105 /\ [][NextPreview105]_vars

\* the event loop runs the callback of an expired timer, and every login POST
\* settles (it carries LOGIN_TIMEOUT)
Live105 ==
    /\ Spec105
    /\ WF_vars(TimerFires105)
    /\ WF_vars(LoginSucceeds105 \/ LoginFails105)
    /\ WF_vars(AbortedLoginSettles105)

(***************************************************************************)
(*              ConnectDvrInstance  (src/unnamed/part_002)                 *)
(***************************************************************************)

\* whether the identifier `error` is bound where login's catch handler reads
\* it: no declaration of it is in scope there
ErrorInScope == FALSE

_endConnection_dvr(s) ==
    IF s.socket # undefined
    THEN [s EXCEPT !.sockets[s.socket] = "closed", !.socket = undefined]
    ELSE s

keep_login_retry_dvr(s, timeout) ==
    IF s.reconnecting # null
    THEN s
    ELSE [setTimeout(s, timeout) EXCEPT !.reconnecting = Least(FreeTimers(s))]

_stopOldLogin_dvr(s) ==
    IF s.reconnecting # null
    THEN [clearTimeout(s, s.reconnecting) EXCEPT !.reconnecting = null]
    ELSE s

\* login(retry) up to its await: the POST is on the wire
login_dvr(s, retry) ==
    LET s1 == [s EXCEPT !.status = "connecting"]
        s2 == _stopOldLogin_dvr(s1)
        r  == Least(FreeReqs(s2))
    IN  [s2 EXCEPT !.logins = @ \cup {[id |-> r, retry |-> retry, aborted |-> FALSE]}]

initSocket_dvr(s) ==
    LET k == Least(FreeSockets(s))
    IN  [s EXCEPT !.status = "connecting", !.socket = k, !.sockets[k] = "connecting"]

\* the .catch handler of the POST: its first statement evaluates `${error}`,
\* which throws a ReferenceError, so the statements after it do not run and
\* login's promise rejects
login_catch_dvr(s, retry) ==
    IF ~ErrorInScope
    THEN [s EXCEPT !.faults = @ \cup {"ReferenceError"}]
    ELSE LET s1 == [s EXCEPT !.status = "connection_failure"]
         IN  IF retry THEN keep_login_retry_dvr(s1, RECONNECT_TIMEOUT) ELSE s1

\* login after its await: data is the parsed body, or undefined if the catch
\* handler returned
login_resume_dvr(s, r, ok, tok) ==
    LET s0 == [s EXCEPT !.logins = @ \ {r}]
    IN  IF ~ok
        THEN login_catch_dvr(s0, r.retry)
        ELSE initSocket_dvr([s0 EXCEPT !.session_id = tok])

\* error.message is read first: a TypeError when error is null, and nothing
\* after it runs
_reconnect_dvr(s, error, retry_immediately) ==
    IF error = "null"
    THEN [s EXCEPT !.faults = @ \cup {"TypeError"}]
    ELSE LET s1 == _endConnection_dvr([s EXCEPT !.status = "disconnected"])
         IN  IF retry_immediately
             THEN login_dvr(s1, TRUE)
             ELSE keep_login_retry_dvr(s1, RECONNECT_TIMEOUT)

\* logout() up to its await: the DELETE is on the wire
logout_dvr(s) ==
    LET s1 == _endConnection_dvr(s)
    IN  IF s1.session_id = null
        THEN s1
        ELSE [s1 EXCEPT !.deletes = @ + 1]

\* logout() after its await, whether the DELETE succeeded or not
logout_resume_dvr(s) ==
    [s EXCEPT !.deletes = @ - 1, !.session_id = null, !.status = "disconnected"]

\* reboot() up to its await: the PUT is on the wire
reboot_dvr(s) ==
    IF s.socket = undefined
    THEN s
    ELSE [s EXCEPT !.status = "disconnected", !.puts = @ + 1]

\* reboot() after its await, whether the PUT succeeded or not
reboot_resume_dvr(s) ==
    LET s1 == _endConnection_dvr([s EXCEPT !.puts = @ - 1])
        s2 == [s1 EXCEPT !.session_id = null]
    IN  keep_login_retry_dvr(s2, REBOOT_WAIT_TIME)

configUpdated_dvr(s, c) ==
    LET s1 == IF s.session_id # null THEN logout_dvr(s) ELSE s
        s2 == [s1 EXCEPT !.config = c]
    IN  IF c.host /\ c.username /\ c.password
        THEN login_dvr(s2, TRUE)
        ELSE s2

init_dvr(s, c) ==
    LET s1 == initVariables([s EXCEPT !.config = c, !.reconnecting = null,
                                      !.session_id = null])
    IN  IF c.host THEN login_dvr(s1, TRUE) ELSE s1

\* destroy() up to the await inside logout()
destroy_dvr(s) == logout_dvr(_stopOldLogin_dvr(s))

\* ---- playback state and load_channel of ConnectDvrInstance ----------------
_set_cur_time_dvr(s, time) ==
    setVariable([s EXCEPT !.cur_time = << time >>], "time", _userFriendlyTime(time))

set_live_channel_dvr(s, id) == [s EXCEPT !.cur_channel = id]

_channel_updates_dvr(s, id, params) ==
    LET stamped == IF /\ Has(params, "duration")
                      /\ \/ ~Has(s.channels[id], "duration")
                         \/ s.channels[id].duration # params.duration
                   THEN ("last_duration_change" :> s.now) @@ params
                   ELSE params
        s1 == [s EXCEPT !.channels[id] = Spread(@, stamped)]
        duration == s1.channels[id].duration
        s2 == setVariable(s1, "duration", _userFriendlyTime(duration))
    IN  IF id # s1.cur_channel THEN s1
        ELSE setVariable(s2, "remaining",
                         IF Has(s1.player_status, "time")
                         THEN _userFriendlyTime(duration - s1.player_status.time)
                         ELSE << 0, 0, 0 >>)

_player_updates_dvr(s, args) ==
    LET s1 == [s EXCEPT !.player_status = Spread(@, args)]
        s2 == IF Has(args, "time") THEN _set_cur_time_dvr(s1, args.time) ELSE s1
    IN  IF Has(args, "active_channel_id")
        THEN set_live_channel_dvr(s2, args.active_channel_id)
        ELSE s2

device_init_dvr(s, player, channel) ==
    LET s1 == [s EXCEPT !.channels = EmptyObject, !.player_status = player]
        s2 == IF Has(player, "active_channel_id")
              THEN set_live_channel_dvr(s1, player.active_channel_id)
              ELSE s1
        s3 == IF Has(player, "time") THEN _set_cur_time_dvr(s2, player.time) ELSE s2
    IN  [s3 EXCEPT !.channels = channel]

\* the error field of a channel record is << >> for null and <<e>> for the
\* object e, whose message, if it has one, is << >> for null and <<text>>
\* for a text.  (channel.error?.message ?? false) === false: there is no
\* error, or it has no message, or a null one
error_message_is_false(channel) ==
    ~ /\ Has(channel, "error")
      /\ channel.error # << >>
      /\ Has(Num(channel.error), "message")
      /\ Num(channel.error).message # << >>

\* variant: any channel of the map is valid
_is_valid_channel_dvr_ignoresError(s, id) == Has(s.channels, id)

_is_valid_channel_dvr(s, id) ==
    /\ Has(s.channels, id)
    /\ error_message_is_false(s.channels[id])

_isConnected_dvr(s) == s.socket # undefined

is_live_dvr(s, id) ==
    /\ _is_valid_channel_dvr(s, id)
    /\ Has(s.channels[id], "last_duration_change")
    /\ s.now - s.channels[id].last_duration_change <= LIVE_WINDOW

_get_new_init_time_dvr(s, id, init_time) ==
    LET duration == s.channels[id].duration
        t1 == IF init_time = << >>
              THEN IF ~is_live_dvr(s, id) THEN 0 ELSE duration
              ELSE Num(init_time)
        t2 == IF t1 > duration - MIN_BUFFER_TIME
              THEN IF duration - MIN_BUFFER_TIME <= 0
                   THEN 0
                   ELSE duration - MIN_BUFFER_TIME
              ELSE t1
    IN  _set_cur_time_dvr(s, t2)

load_channel_dvr(s, id, init_time, callback) ==
    IF ~_isConnected_dvr(s) THEN return(s, "false")
    ELSE IF ~_is_valid_channel_dvr(s, id) THEN return(s, "false")
    ELSE LET s1 == _get_new_init_time_dvr(s, id, init_time)
             s2 == emit(s1, << "playback:loadChannel", id, Num(s1.cur_time), callback >>)
         IN  return(set_live_channel_dvr(s2, id), "true")

on_model_delta_player_dvr(s, arg1) == _player_updates_dvr(s, arg1)

on_model_delta_other_dvr(s, type, arg1) ==
    IF Has(s.channels, type) THEN _channel_updates_dvr(s, type, arg1) ELSE s

\* ---- actions of ConnectDvrInstance ---------------------------------------
InitDvr ==
    /\ phase = "constructed"
    /\ config = [host |-> FALSE, username |-> FALSE, password |-> FALSE]
    /\ status = "null"
    /\ session_id = null
    /\ socket = undefined
    /\ sockets = [k \in SocketIds |-> "closed"]
    /\ reconnecting = null
    /\ timers = {}
    /\ login_request = null
    /\ logins = {}
    /\ deletes = 0
    /\ puts = 0
    /\ faults = {}
    /\ NoPlayback
    /\ variables = EmptyObject

HostInitDvr ==
    /\ phase = "constructed"
    /\ \E c \in Configs : Commit([init_dvr(Cur, c) EXCEPT !.phase = "running"])

HostConfigUpdatedDvr ==
    /\ phase = "running"
    /\ ReqRoom(Cur)
    /\ deletes < MaxPending \/ session_id = null
    /\ \E c \in Configs : Commit(configUpdated_dvr(Cur, c))

HostRebootDvr ==
    /\ phase = "running"
    /\ puts < MaxPending \/ socket = undefined
    /\ Commit(reboot_dvr(Cur))

RebootSettlesDvr ==
    /\ puts > 0
    /\ TimerRoom(Cur)
    /\ Commit(reboot_resume_dvr(Cur))

HostDestroyDvr ==
    /\ phase = "running"
    /\ deletes < MaxPending \/ session_id = null
    /\ Commit([destroy_dvr(Cur) EXCEPT !.phase = "destroyed"])

LogoutSettlesDvr ==
    /\ deletes > 0
    /\ Commit(logout_resume_dvr(Cur))

TimerFiresDvr ==
    /\ ReqRoom(Cur)
    /\ \E t \in timers :
          Commit(login_dvr([Cur EXCEPT !.timers = @ \ {t}], TRUE))

LoginSettlesDvr(r, ok, tok) ==
    /\ r \in logins
    /\ (IF ok THEN SocketRoom(Cur) ELSE TimerRoom(Cur))
    /\ Commit(login_resume_dvr(Cur, r, ok, tok))

LoginSucceedsDvr ==
    \E r \in logins, tok \in Tokens : LoginSettlesDvr(r, TRUE, tok)

LoginFailsDvr ==
    \E r \in logins : LoginSettlesDvr(r, FALSE, null)

SocketConnectDvr ==
    \E k \in SocketIds :
       /\ sockets[k] = "connecting"
       /\ Commit([Cur EXCEPT !.sockets[k] = "connected", !.status = "ok"])

\* .on('connect_error', this._reconnect.bind(this)): (error) is the only
\* argument, retry_immediately is undefined
SocketConnectErrorDvr ==
    \E k \in SocketIds, err \in ConnectErrorArgs :
       /\ sockets[k] # "closed"
       /\ TimerRoom(Cur)
       /\ Commit(_reconnect_dvr(Cur, err, FALSE))

\* .on('logout', this._reconnect.bind(this, null, true))
SocketLogoutPushDvr ==
    \E k \in SocketIds :
       /\ sockets[k] = "connected"
       /\ Commit(_reconnect_dvr(Cur, "null", TRUE))

NextDvr ==
    \/ HostInitDvr
    \/ HostConfigUpdatedDvr
    \/ HostRebootDvr
    \/ RebootSettlesDvr
    \/ HostDestroyDvr
    \/ LogoutSettlesDvr
    \/ TimerFiresDvr
    \/ LoginSucceedsDvr
    \/ LoginFailsDvr
    \/ SocketConnectDvr
    \/ SocketConnectErrorDvr
    \/ SocketLogoutPushDvr

SpecDvr == InitDvr /\ [][NextDvr]_vars

\* ---- loading channels on a connected ConnectDvrInstance -------------------
\* init() ran with a host configured, the login succeeded and the socket
\* connected; no device data has arrived yet
ConnectedDvr ==
    /\ phase = "running"
    /\ config = [host |-> TRUE, username |-> TRUE, password |-> TRUE]
    /\ status = "ok"
    /\ session_id = 1
    /\ socket = 1
    /\ sockets = [k \in SocketIds |-> IF k = 1 THEN "connected" ELSE "closed"]
    /\ reconnecting = null
    /\ timers = {}
    /\ login_request = null
    /\ logins = {}
    /\ deletes = 0
    /\ puts = 0
    /\ faults = {}
    /\ NoPlayback
    /\ variables = initVariables([variables |-> EmptyObject]).variables

\* what the device reports as a channel's error: null, an object without a
\* message, an object with a message
Errors == { << >>, << [code |-> 500] >>, << [message |-> << "Stream unavailable" >>] >> }

\* channel records with and without an error field
ChannelRecordsDvr ==
    { Pick(r, K) : r \in [duration : {100}, error : Errors],
                   K \in {{"duration"}, {"duration", "error"}} }

ChannelMapsDvr ==
    { [id \in 1..n |-> r] : n \in 0..MaxChannels, r \in ChannelRecordsDvr }

ChannelParamsDvr == [error : Errors] \cup [duration : {20}]

SnapshotDvr(player, channel) ==
    /\ Delivering
    /\ Commit([device_init_dvr(Cur, player, channel)
                 EXCEPT !.lastChange = [id \in ChannelIds |-> << >>],
                        !.toggles = 0])

DataInitDvr ==
    \E player \in {EmptyObject, [time |-> 15, active_channel_id |-> 1]},
       channel \in ChannelMapsDvr :
       SnapshotDvr(player, channel)

PlayerDeltaDvr ==
    \E args \in {[time |-> 15], [active_channel_id |-> 2]} :
       /\ Delivering
       /\ Commit(on_model_delta_player_dvr(Cur, args))

ChannelDeltaDvr ==
    \E id \in ChannelIds, params \in ChannelParamsDvr :
       /\ Delivering
       /\ Commit([on_model_delta_other_dvr(Cur, id, params)
                    EXCEPT !.lastChange =
                       IF /\ Has(channels, id)
                          /\ Has(params, "duration")
                          /\ channels[id].duration # params.duration
                       THEN [@ EXCEPT ![id] = << now >>]
                       ELSE @])

LoadChannelDvr(id, init_time) ==
    /\ phase = "running"
    /\ Commit(load_channel_dvr(Cur, id, init_time, "null"))

LoadTimesDvr == {<< >>, << 5 >>}

HostLoadChannelDvr ==
    \E id \in ChannelIds, init_time \in LoadTimesDvr :
       LoadChannelDvr(id, init_time)

NextPlayDvr ==
    \/ DataInitDvr
    \/ PlayerDeltaDvr
    \/ ChannelDeltaDvr
    \/ HostLoadChannelDvr

PlayDvr == ConnectedDvr /\ [][NextPlayDvr]_vars

(***************************************************************************)
(*                       v1.0.0  (src/index.js)                            *)
(***************************************************************************)
\* this.socket is never deleted: after socket.close() it still names the
\* closed socket.  A new socket replaces it without closing it.

RECONNECT_TIMEOUT_100 == 60

\* initVariables(): both published values start as 'Not playing'
initVariables_100(s) ==
    [s EXCEPT !.variables = [time |-> << "Not playing" >>,
                             duration |-> << "Not playing" >>]]

\* this.socket.close(), where this.socket is a socket
close_100(s) == [s EXCEPT !.sockets[s.socket] = "closed"]

keep_login_retry_100(s, timeout) ==
    IF s.reconnecting # null
    THEN s
    ELSE [setTimeout(s, timeout) EXCEPT !.reconnecting = Least(FreeTimers(s))]

\* login(retry = false), up to the point where the POST is on the wire
login_100(s, retry) ==
    LET s1 == IF s.reconnecting # null
              THEN [clearTimeout(s, s.reconnecting) EXCEPT !.reconnecting = null]
              ELSE s
        r  == Least(FreeReqs(s1))
    IN  [s1 EXCEPT !.logins = @ \cup {[id |-> r, retry |-> retry, aborted |-> FALSE]}]

initSocket_100(s) ==
    LET k == Least(FreeSockets(s))
    IN  [s EXCEPT !.socket = k, !.sockets[k] = "connecting"]

\* the callback of the login POST
login_callback_100(s, r, ok, tok) ==
    LET s0 == [s EXCEPT !.logins = @ \ {r}]
    IN  IF ~ok
        THEN LET s1 == [s0 EXCEPT !.status = "ERROR"]
             IN  IF r.retry
                 THEN keep_login_retry_100(s1, RECONNECT_TIMEOUT_100)
                 ELSE s1
        ELSE initSocket_100([s0 EXCEPT !.session_id = tok])

_reconnect_100(s, retry_immediately) ==
    LET s1 == close_100([s EXCEPT !.status = "ERROR"])
    IN  IF retry_immediately
        THEN login_100(s1, TRUE)
        ELSE keep_login_retry_100(s1, RECONNECT_TIMEOUT_100)

\* the session id is kept
logout_100(s) ==
    IF s.session_id = null
    THEN s
    ELSE [close_100(s) EXCEPT !.deletes = @ + 1]

\* this.socket.close() throws when no socket was ever opened: the PUT has
\* been sent, the retry is not armed
reboot_100(s) ==
    LET s1 == [s EXCEPT !.status = "ERROR", !.puts = @ + 1]
    IN  IF s1.socket = undefined
        THEN [s1 EXCEPT !.faults = @ \cup {"TypeError"}]
        ELSE keep_login_retry_100(close_100(s1), REBOOT_WAIT_TIME)

updateConfig_100(s, c) ==
    LET s1 == [s EXCEPT !.config = c]
        s2 == IF s1.session_id # null THEN logout_100(s1) ELSE s1
    IN  IF c.host /\ c.username /\ c.password
        THEN login_100(s2, FALSE)
        ELSE s2

init_100(s) ==
    LET s1 == initVariables_100([s EXCEPT !.status = "UNKNOWN"])
    IN  IF s1.config.host THEN login_100(s1, FALSE) ELSE s1

destroy_100(s) == logout_100(s)

\* this._next_preview_refresh is Date.now() of the constructor, which runs at
\* clock 0; only the answer to a preview GET moves it
next_preview_refresh_100 == 0

\* get_latest_image(force = false): a GET is sent unless the last refresh was
\* recent
get_latest_image_100(s, force) ==
    IF ~force /\ next_preview_refresh_100 > s.now
    THEN s
    ELSE [s EXCEPT !.fetching = @ + 1]

_set_cur_time_100(s, time) ==
    get_latest_image_100(
        setVariable([s EXCEPT !.cur_time = << time >>], "time", _userFriendlyTime(time)),
        FALSE)

set_live_channel_100(s, id) == [s EXCEPT !.cur_channel = id]

\* args is an object
_player_updates_100(s, args) ==
    LET s1 == [s EXCEPT !.player_status = Spread(@, args)]
        s2 == IF Has(args, "time") THEN _set_cur_time_100(s1, args.time) ELSE s1
    IN  IF Has(args, "active_channel_id")
        THEN set_live_channel_100(s2, args.active_channel_id)
        ELSE s2

\* device_init(data): data.player is the player block, channel the records
\* data[id] of the ids listed in data.channel
device_init_100(s, player, channel) ==
    LET s1 == [s EXCEPT !.channels = EmptyObject, !.player_status = player]
        s2 == IF Has(player, "active_channel_id")
              THEN set_live_channel_100(s1, player.active_channel_id)
              ELSE s1
    IN  [s2 EXCEPT !.channels = channel]

\* feedback(feedback, bank) for the types 'playing' and 'stopped': TRUE when
\* it returns the colours of the feedback, FALSE when it returns {}
feedback_100(s, type) ==
    IF type = "playing" /\ Has(s.player_status, "playing") /\ s.player_status.playing
    THEN TRUE
    ELSE IF type = "stopped" /\ Has(s.player_status, "playing")
                             /\ ~s.player_status.playing
    THEN TRUE
    ELSE FALSE

\* ---- actions of v1.0.0 ---------------------------------------------------
HostInit100 ==
    /\ phase = "constructed"
    /\ ReqRoom(Cur)
    /\ Commit([init_100(Cur) EXCEPT !.phase = "running"])

HostUpdateConfig100 ==
    /\ phase = "running"
    /\ ReqRoom(Cur)
    /\ deletes < MaxPending \/ session_id = null
    /\ \E c \in Configs : Commit(updateConfig_100(Cur, c))

HostReboot100 ==
    /\ phase = "running"
    /\ TimerRoom(Cur)
    /\ puts < MaxPending
    /\ Commit(reboot_100(Cur))

HostDestroy100 ==
    /\ phase = "running"
    /\ deletes < MaxPending \/ session_id = null
    /\ Commit([destroy_100(Cur) EXCEPT !.phase = "destroyed"])

\* the retry timer fires: setTimeout's callback is login.bind(this, true)
TimerFires100 ==
    /\ ReqRoom(Cur)
    /\ \E t \in timers :
          Commit(login_100([Cur EXCEPT !.timers = @ \ {t}], TRUE))

LoginResponse100(r, ok, tok) ==
    /\ r \in logins
    /\ (IF ok THEN SocketRoom(Cur) ELSE TimerRoom(Cur))
    /\ Commit(login_callback_100(Cur, r, ok, tok))

LoginSucceeds100 ==
    \E r \in logins, tok \in Tokens : LoginResponse100(r, TRUE, tok)

LoginFails100 ==
    \E r \in logins : LoginResponse100(r, FALSE, null)

SocketConnect100 ==
    \E k \in SocketIds :
       /\ sockets[k] = "connecting"
       /\ Commit([Cur EXCEPT !.sockets[k] = "connected", !.status = "OK"])

\* .on('connect_error', this._reconnect.bind(this)): the listener's first
\* argument, the error, arrives as retry_immediately
SocketConnectError100 ==
    \E k \in SocketIds, err \in ConnectErrorArgs :
       /\ sockets[k] # "closed"
       /\ ReqRoom(Cur) /\ TimerRoom(Cur)
       /\ Commit(_reconnect_100(Cur, Truthy(err)))

\* .on('logout', this._reconnect.bind(this, true))
SocketLogoutPush100 ==
    \E k \in SocketIds :
       /\ sockets[k] = "connected"
       /\ ReqRoom(Cur)
       /\ Commit(_reconnect_100(Cur, TRUE))

\* the callback of the DELETE reads response.statusCode: with no response it
\* throws
DeleteResponse100 ==
    \E responded \in BOOLEAN :
       /\ deletes > 0
       /\ Commit([Cur EXCEPT !.deletes = @ - 1,
                             !.faults = IF responded THEN @ ELSE @ \cup {"TypeError"}])

\* the callback of the PUT only writes to the log
RebootResponse100 ==
    /\ puts > 0
    /\ Commit([Cur EXCEPT !.puts = @ - 1])

Next100 ==
    \/ HostInit100
    \/ HostUpdateConfig100
    \/ HostReboot100
    \/ HostDestroy100
    \/ TimerFires100
    \/ LoginSucceeds100
    \/ LoginFails100
    \/ SocketConnect100
    \/ SocketConnectError100
    \/ SocketLogoutPush100
    \/ DeleteResponse100
    \/ RebootResponse100

\* the constructor's fields are those of v1.0.5; the event loop runs the
\* callback of an expired timer, and every login POST settles
Live100 ==
    /\ Init105 /\ [][Next100]_vars
    /\ WF_vars(TimerFires100)
    /\ WF_vars(LoginSucceeds100 \/ LoginFails100)

\* ---- the player status of v1.0.0 on a connected session ------------------
\* data:init and player deltas arrive; no preview GET is answered
Snapshot100(player, channel) ==
    /\ Delivering
    /\ Commit(Unanswered([device_init_100(Cur, player, channel)
                 EXCEPT !.lastChange = [id \in ChannelIds |-> << >>],
                        !.toggles = 0]))

PlayerUpdate100(args) ==
    /\ Delivering
    /\ Commit(Unanswered([_player_updates_100(Cur, args) EXCEPT !.toggles = 0]))

StatusDeltas ==
    {[playing |-> TRUE], [playing |-> FALSE], [time |-> 15], [active_channel_id |-> 1]}
StatusPlayers ==
    {EmptyObject, [playing |-> TRUE], [playing |-> FALSE, active_channel_id |-> 2]}

NextStatus100 ==
    \/ \E player \in StatusPlayers, channel \in ChannelMaps : Snapshot100(player, channel)
    \/ \E args \in StatusDeltas : PlayerUpdate100(args)

Connected100 ==
    /\ phase = "running"
    /\ config = [host |-> TRUE, username |-> TRUE, password |-> TRUE]
    /\ status = "OK"
    /\ session_id = 1
    /\ socket = 1
    /\ sockets = [k \in SocketIds |-> IF k = 1 THEN "connected" ELSE "closed"]
    /\ reconnecting = null
    /\ timers = {}
    /\ login_request = null
    /\ logins = {}
    /\ deletes = 0
    /\ puts = 0
    /\ faults = {}
    /\ NoPlayback
    /\ variables = initVariables_100([variables |-> EmptyObject]).variables

Status100 == Connected100 /\ [][NextStatus100]_vars

(***************************************************************************)
(*                              Properties                                 *)
(***************************************************************************)

\* login POSTs whose callback can still run
Live(L) == { r \in L : ~r.aborted }

\* C1 (v1.0.5): at most one reconnect timer is pending, this.reconnecting is
\* its handle, and no timer is pending while a login request is in flight
\* (login() cleared it before it issued the request).
C1_OneReconnectTimer ==
    /\ Cardinality(timers) <= 1
    /\ \A t \in timers : t.id = reconnecting
    /\ Live(logins) # {} => timers = {}

\* a reboot wait was replaced by a configuration update's login whose failure
\* re-armed the short timer
C1_Witness ==
    /\ \E t \in timers : t.timeout = RECONNECT_TIMEOUT
    /\ puts > 0
    /\ status = "ERROR"

\* C2 (ConnectDvrInstance): initSocket never runs while an earlier socket is
\* still open, so at most one socket.io connection is open at any time.
C2_NeverTwoSockets ==
    Cardinality(OpenSockets(Cur)) <= 1

\* C3 (v1.0.5): when a login POST that was superseded (aborted by a newer
\* login(), no longer the request this._login_request names, or outlived by
\* destroy()) settles, the step stores no session token, opens no socket,
\* arms no timer and reports no status.
C3_StaleLoginIgnored ==
    [][ \A r \in logins :
          ( /\ r \notin logins'
            /\ \A q \in logins' : q.id # r.id
            /\ (r.aborted \/ r.id # login_request \/ phase = "destroyed") )
          => UNCHANGED << session_id, socket, sockets, timers, reconnecting, status >>
      ]_vars

\* a superseded login POST is still on the wire while a newer one is current
C3_Witness ==
    /\ \E r \in logins : r.aborted
    /\ \E r \in logins : ~r.aborted /\ r.id = login_request

\* C4 (ConnectDvrInstance): once destroy() has been called there is no
\* pending reconnect timer, no open socket and no stored session token.
C4_TeardownTerminal ==
    phase = "destroyed" =>
        /\ timers = {}
        /\ OpenSockets(Cur) = {}
        /\ session_id = null

\* C5 (ConnectDvrInstance): a failed login POST sets the status to the error
\* state and arms exactly one retry timer iff login was called with retry.
C5_FailedLoginRetries ==
    [][ \A r \in logins :
          LoginSettlesDvr(r, FALSE, null) =>
             /\ status' = "connection_failure"
             /\ r.retry => Cardinality(timers') = 1
             /\ ~r.retry => timers' = timers
      ]_vars

\* C6 (v1.0.5): reconnection never gives up.  Whenever the running module is
\* in the error status (a login failed, the connection was lost or a reboot
\* was requested) a login request is eventually in flight, unless the module
\* is destroyed; and a socket that connected has the status OK.
C6_ReconnectForever ==
    /\ (phase = "running" /\ status = "ERROR")
          ~> (Live(logins) # {} \/ phase = "destroyed")
    /\ [](\A k \in SocketIds : sockets[k] = "connected" => status = "OK")

\* a login has failed and its retry timer is pending
C6_Witness ==
    /\ phase = "running"
    /\ status = "ERROR"
    /\ logins = {}
    /\ \E t \in timers : t.timeout = RECONNECT_TIMEOUT

\* C7 (v1.0.5): a connect_error closes the socket, leaves the error status
\* and starts no login: the next login waits for the RECONNECT_TIMEOUT timer.
C7_ConnectErrorWaits ==
    [][ SocketConnectError105 =>
          /\ socket' = undefined
          /\ status' = "ERROR"
          /\ Live(logins') = {}
          /\ \E t \in timers' : t.timeout = RECONNECT_TIMEOUT
      ]_vars

\* C8 (ConnectDvrInstance): a server-pushed logout closes and discards the
\* socket and starts a fresh login(true) at once, with no retry timer armed.
C8_LogoutPushRelogs ==
    [][ SocketLogoutPushDvr =>
          /\ socket' = undefined
          /\ OpenSockets(Cur)' = {}
          /\ \E r \in logins' \ logins : r.retry
          /\ timers' = {}
      ]_vars

\* C9 (ConnectDvrInstance): logout() clears the session token in the step
\* that calls it, and the later completion of the DELETE changes neither the
\* session token nor the status.
C9_LogoutClearsAtOnce ==
    [][ /\ (HostConfigUpdatedDvr \/ HostDestroyDvr) /\ session_id # null
             => session_id' = null
        /\ LogoutSettlesDvr => (session_id' = session_id /\ status' = status)
      ]_vars

\* C10 (v1.0.5): logout() is idempotent.  In every reachable state a second
\* logout() changes nothing after the first, the first leaves no token and no
\* socket and issues a DELETE only if a token was stored, and with no token
\* stored logout() changes nothing at all.
C10_LogoutIdempotent ==
    LET once  == logout_105(Cur)
        twice == logout_105(once)
    IN  /\ twice = once
        /\ once.session_id = null
        /\ once.socket = undefined
        /\ once.deletes = IF session_id = null THEN deletes ELSE deletes + 1
        /\ session_id = null => once = Cur

\* updateConfig() logged a session out (its DELETE is still pending) and
\* destroy() then called logout() again with no token stored
C10_Witness ==
    /\ phase = "destroyed"
    /\ deletes = 1
    /\ session_id = null
    /\ ~config.host

\* C11 (ConnectDvrInstance): once reboot() has run on a connected session the
\* socket is closed, the token is cleared, and the only pending retry timer
\* is the REBOOT_WAIT_TIME one, whatever socket events arrived while the
\* reboot PUT was in flight.
C11_RebootWaitsLong ==
    [][ RebootSettlesDvr =>
          /\ socket' = undefined
          /\ session_id' = null
          /\ OpenSockets(Cur)' = {}
          /\ timers' # {}
          /\ \A t \in timers' : t.timeout = REBOOT_WAIT_TIME
      ]_vars

\* C12 (v1.0.5): the token is stored only between a successful login and the
\* next logout, reboot or unsolicited disconnect: every step that runs
\* logout(), reboot() on a connected session, or _reconnect for a socket
\* error or a server logout push leaves session_id null.
C12_TokenClearedOnDisconnect ==
    [][ ( \/ HostUpdateConfig105
          \/ HostDestroy105
          \/ HostReboot105 /\ socket # undefined
          \/ SocketConnectError105
          \/ SocketLogoutPush105 )
        => session_id' = null
      ]_vars

\* the start time the seek-time clamp is stated to resolve: max(0, D - 25)
\* for a requested time t >= D - 25, and t itself below that
Clamped(D, t) == IF t >= D - MIN_BUFFER_TIME THEN Max(0, D - MIN_BUFFER_TIME) ELSE t

\* the step is load_channel(id, init_time) called, while connected, on a
\* channel of the map
LoadsValid105(id, init_time) ==
    /\ _isConnected_105(Cur)
    /\ _is_valid_channel_105(Cur, id)
    /\ LoadChannel105(id, init_time)

\* C15 (v1.0.5): load_channel of a valid channel of duration D at a numeric
\* time t emits, and stores in cur_time, max(0, D - 25) when t >= D - 25 and
\* t itself when t < D - 25.
C15_SeekClamp ==
    [][ \A id \in ChannelIds, t \in SeekTimes :
          LoadsValid105(id, t) =>
             LET want == Clamped(channels[id].duration, Num(t))
             IN  /\ cur_time' = << want >>
                 /\ emitted' = << << "playback:loadChannel", id, want, "null" >> >>
      ]_vars

\* C16 (v1.0.5): load_channel(id, '') of a valid channel resolves the start
\* time to 0 when the channel is not live and to max(0, duration - 25), the
\* live edge clamped again, when it is live; that time is emitted and stored.
C16_BlankTimeResolves ==
    [][ \A id \in ChannelIds :
          LoadsValid105(id, << >>) =>
             LET want == IF is_live_105(Cur, id)
                         THEN Max(0, channels[id].duration - MIN_BUFFER_TIME)
                         ELSE 0
             IN  /\ cur_time' = << want >>
                 /\ emitted' = << << "playback:loadChannel", id, want, "null" >> >>
      ]_vars

\* a live channel of duration 100 was loaded at the blank time: 75
C16_Witness ==
    /\ emitted = << << "playback:loadChannel", 1, 75, "null" >> >>
    /\ channels[1].duration = 100
    /\ is_live_105(Cur, 1)

\* C17 (v1.0.5): is_live(id) holds exactly while at most 15 s have elapsed
\* since the last delta that changed id's duration: it holds right after
\* such a delta and stops holding, with no further event, once more than
\* 15 s have passed without another change.
C17_LiveWindow ==
    \A id \in ChannelIds :
       is_live_105(Cur, id) <=>
          /\ lastChange[id] # << >>
          /\ now - Num(lastChange[id]) <= LIVE_WINDOW

\* channel 1 went live and its window has run out; channel 2 changed later
\* and is still live
C17_Witness ==
    /\ lastChange[1] # << >> /\ now - Num(lastChange[1]) > LIVE_WINDOW
    /\ ~is_live_105(Cur, 1)
    /\ lastChange[2] # << >> /\ now - Num(lastChange[2]) = LIVE_WINDOW
    /\ is_live_105(Cur, 2)

\* C18 as stated (v1.0.5): in every reachable state, a data:init snapshot
\* leaves the channel map holding exactly the snapshot's records,
\* player_status equal to the snapshot's player block, and cur_channel and
\* cur_time equal to the block's active_channel_id and time (nothing, when
\* the block has none).
C18_SnapshotSetsAll ==
    \A player \in PlayerObjects(PlayerTimes), channel \in ChannelMaps :
       LET after == device_init_105(Cur, player, channel)
       IN  /\ after.channels = channel
           /\ after.player_status = player
           /\ after.cur_channel = IF Has(player, "active_channel_id")
                                  THEN player.active_channel_id ELSE null
           /\ after.cur_time = IF Has(player, "time") THEN << player.time >> ELSE << >>

\* C18 amended (v1.0.5): in every reachable state, a data:init snapshot
\* leaves the channel map holding exactly the snapshot's records and
\* player_status equal to the snapshot's player block; cur_channel and
\* cur_time become the block's active_channel_id and time when the block
\* carries them, and keep their previous value when it does not.
C18_SnapshotReplaces ==
    \A player \in PlayerObjects(PlayerTimes), channel \in ChannelMaps :
       LET after == device_init_105(Cur, player, channel)
       IN  /\ after.channels = channel
           /\ after.player_status = player
           /\ after.cur_channel = IF Has(player, "active_channel_id")
                                  THEN player.active_channel_id ELSE cur_channel
           /\ after.cur_time = IF Has(player, "time") THEN << player.time >> ELSE cur_time

\* a player time arrived with no active channel, and a later snapshot whose
\* player block was empty replaced player_status and kept cur_time
C18_Witness ==
    /\ player_status = EmptyObject
    /\ channels # EmptyObject
    /\ cur_channel = null
    /\ cur_time = << 15 >>

\* the display that C19 expects after a skip and its echo: 'remaining' is
\* published as the current channel's duration less cur_time
RemainingConsistent(s) ==
    /\ Has(s.channels, s.cur_channel)
    /\ s.cur_time # << >>
    /\ Has(s.variables, "remaining")
    /\ s.variables["remaining"] =
          _userFriendlyTime(s.channels[s.cur_channel].duration - Num(s.cur_time))

\* C19 (v1.0.5): in every state where the published remaining time is
\* consistent and skip_live(N) is accepted, the skip followed by the device's
\* player delta with time = cur_time + N leaves the published remaining time
\* equal to the current channel's duration less cur_time.
C19_RemainingAfterSkip ==
    \A N \in SkipTimes :
       LET skipped == skip_live_105(Cur, N)
           echoed  == on_model_delta_player_105([skipped EXCEPT !.emitted = << >>],
                                                [time |-> Num(cur_time) + N])
       IN  (RemainingConsistent(Cur) /\ skipped.emitted # << >>)
              => RemainingConsistent(echoed)

\* the session is connected: the socket exists and has had its connect event
SessionConnected105 == socket # undefined /\ sockets[socket] = "connected"

\* C13 (v1.0.5): play_pause(), load_channel() and reboot() act only while
\* the session is connected; in every other session state a call emits
\* nothing on the socket, sends no reboot PUT and changes no state.
C13_CommandsNeedConnection ==
    [][ ( /\ ~SessionConnected105
          /\ \/ HostPlayPause105
             \/ HostLoadChannel105({1, 2}, {<< 15 >>})
             \/ HostReboot105 )
        => /\ emitted' = << >>
           /\ puts' = puts
           /\ UNCHANGED << status, session_id, socket, sockets, reconnecting, timers,
                           login_request, logins, cur_channel, cur_time, variables >>
      ]_vars

\* C20 (v1.0.5): cur_time changes only on a player delta or a snapshot that
\* carries a time, which it then equals, or on an accepted load, skip, goto
\* or recall, whose emitted start time it then equals; every other step
\* leaves it unchanged.
C20_CurTimeFrame ==
    [][ cur_time' # cur_time =>
          \/ /\ \/ PlayerDelta105({[time |-> 15], [active_channel_id |-> 1]})
                \/ DataInit105({[time |-> 15, active_channel_id |-> 1]},
                               {[id \in {1} |-> [duration |-> 100]]})
             /\ Has(player_status', "time")
             /\ cur_time' = << player_status'.time >>
          \/ /\ \/ HostLoadChannel105({1, 2}, {<< 15 >>})
                \/ HostSkipLive105({10})
                \/ HostAction105({1}, {<< 15 >>})
                \/ HostRecallCuepoint105({1}, {"play"})
             /\ emitted' # << >>
             /\ emitted'[1][1] = "playback:loadChannel"
             /\ cur_time' = << emitted'[1][3] >>
      ]_vars

\* a position was stored in a cuepoint, skipped from, and then kept through
\* a logout and the teardown of the module
C20_Witness ==
    /\ phase = "destroyed"
    /\ socket = undefined
    /\ Has(cuepoints, 1)
    /\ cuepoints[1].time = << 15 >>
    /\ cur_time = << 25 >>

\* the record carries a device-reported error
CarriesError(channel) == Has(channel, "error") /\ channel.error # << >>

\* the record carries a device-reported error that has a message
CarriesErrorMessage(channel) ==
    /\ CarriesError(channel)
    /\ Has(Num(channel.error), "message")
    /\ Num(channel.error).message # << >>

\* C14 as stated (ConnectDvrInstance): in every reachable state,
\* load_channel(id, t) for an id absent from the channel map, or whose record
\* carries a device-reported error, returns false, emits nothing and leaves
\* cur_channel and cur_time unchanged.
C14_ErroredChannelRejected ==
    \A id \in ChannelIds, t \in LoadTimesDvr :
       LET after == load_channel_dvr(Cur, id, t, "null")
       IN  (~Has(channels, id) \/ CarriesError(channels[id]))
              => /\ after.returned = "false"
                 /\ after.emitted = << >>
                 /\ after.cur_channel = cur_channel
                 /\ after.cur_time = cur_time

\* C14 amended (ConnectDvrInstance): in every reachable state,
\* load_channel(id, t) for an id absent from the channel map, or whose record
\* carries a device-reported error that has a message, returns false, emits
\* nothing and leaves cur_channel and cur_time unchanged.
C14_MessageErrorRejected ==
    \A id \in ChannelIds, t \in LoadTimesDvr :
       LET after == load_channel_dvr(Cur, id, t, "null")
       IN  (~Has(channels, id) \/ CarriesErrorMessage(channels[id]))
              => /\ after.returned = "false"
                 /\ after.emitted = << >>
                 /\ after.cur_channel = cur_channel
                 /\ after.cur_time = cur_time

\* every channel is in the map with an error message, a channel was current
\* at a known time, and the load just asked for was refused
C14_Witness ==
    /\ DOMAIN channels = ChannelIds
    /\ \A id \in ChannelIds : CarriesErrorMessage(channels[id])
    /\ cur_channel # null
    /\ cur_time # << >>
    /\ returned = "false"
    /\ emitted = << >>

\* C21 (v1.0.5): in every reachable state, set_cuepoint(slot) without an
\* active position (no current channel, or cur_time null or 0) returns false
\* and changes nothing; with an active position the slot afterwards holds
\* exactly the current channel, the current time and the latest preview
\* image, whatever it held before, and every other slot is as it was.
C21_SetCuepoint ==
    \A slot \in CueSlots :
       LET after == set_cuepoint_105(Cur, slot)
       IN  IF cur_channel = null \/ cur_time = << >> \/ cur_time = << 0 >>
           THEN after = return(Cur, "false")
           ELSE /\ DOMAIN after.cuepoints = DOMAIN cuepoints \cup {slot}
                /\ after.cuepoints[slot] =
                      [channel |-> cur_channel, time |-> cur_time, image |-> image]
                /\ \A other \in DOMAIN cuepoints \ {slot} :
                      after.cuepoints[other] = cuepoints[other]

\* slot 1 was just set to the current position and the preview shown, while
\* slot 2 holds an earlier position with an earlier preview
C21_Witness ==
    /\ image # null
    /\ Has(cuepoints, 1) /\ Has(cuepoints, 2)
    /\ cuepoints[1] = [channel |-> cur_channel, time |-> cur_time, image |-> image]
    /\ cuepoints[2].time # cur_time
    /\ cuepoints[2].image \notin {null, image}

\* C22 (v1.0.5): in every reachable state, recall_cuepoint(slot, state) on
\* an empty slot, for either play state, emits nothing and changes no
\* state: it only returns false.
C22_EmptySlotRecall ==
    \A slot \in CueSlots \ DOMAIN cuepoints, play_state \in {"play", "pause"} :
       recall_cuepoint_105(Cur, slot, play_state) = return(Cur, "false")

\* slot 1 holds a cuepoint whose channel could be loaded, slot 2 is empty,
\* and the recall just asked for was refused
C22_Witness ==
    /\ Has(cuepoints, 1) /\ ~Has(cuepoints, 2)
    /\ _isConnected_105(Cur)
    /\ _is_valid_channel_105(Cur, cuepoints[1].channel)
    /\ is_currently_active_105(Cur)
    /\ returned = "false"
    /\ emitted = << >>

\* C23 (v1.0.5): in every reachable state, skip_live without an active
\* position (no current channel, or cur_time null or 0) emits nothing and
\* changes nothing: both cur_channel and cur_time are tested.
C23_InactiveSkip ==
    \A time \in SkipTimes :
       (cur_channel = null \/ cur_time = << >> \/ cur_time = << 0 >>)
          => skip_live_105(Cur, time) = return(Cur, "false")

\* a channel that could be loaded is current at time 0, and the skip just
\* asked for was refused
C23_Witness ==
    /\ cur_channel # null
    /\ _isConnected_105(Cur)
    /\ _is_valid_channel_105(Cur, cur_channel)
    /\ cur_time = << 0 >>
    /\ returned = "false"
    /\ emitted = << >>

\* C24 (v1.0.5): the times the 'goto' action reads from its text field
\* round-trip.  When the text s has the form hh:mm:ss with two-digit fields
\* and minutes and seconds below 60, the time published after the load,
\* _userFriendlyTime(_toSeconds(s)), is s; when s is a bare number of seconds
\* the stored time, _toSeconds(s), is that number; and _toSeconds of the blank
\* text is the blank text.
C24_TimeRoundTrip ==
    [][ \A text \in TimeTexts :
          (TypedTime105("goto", 1, text) /\ emitted' # << >>) =>
             /\ Len(text) = 3 => variables'["time"] = text
             /\ Len(text) = 1 => cur_time' = text
             /\ _toSeconds(<< >>) = << >>
      ]_vars

\* C26 (v1.0.5): a skip_live(d) that is accepted (a current channel and a
\* current time, a socket, the current channel in the map) emits exactly one
\* playback:loadChannel, for the unchanged current channel, at the seek clamp
\* of cur_time + d, and stores that time in cur_time.
C26_AcceptedSkip ==
    \A d \in SkipTimes :
       LET after == skip_live_105(Cur, d)
       IN  ( /\ is_currently_active_105(Cur)
             /\ _isConnected_105(Cur)
             /\ _is_valid_channel_105(Cur, cur_channel) )
           => LET want == Clamped(channels[cur_channel].duration, Num(cur_time) + d)
              IN  /\ after.emitted =
                        << << "playback:loadChannel", cur_channel, want, "null" >> >>
                  /\ after.cur_channel = cur_channel
                  /\ after.cur_time = << want >>

Stamp(record) ==
    IF Has(record, "last_duration_change") THEN << record.last_duration_change >> ELSE << >>

\* C28 (v1.0.5): no channel is live without a duration change.  In every
\* reachable state, right after a data:init snapshot is_live is false for
\* every channel, and a channel delta that carries no duration, or the
\* duration already stored, leaves the channel's liveness and the stamp its
\* liveness window is counted from as they were.
C28_NoLivenessWithoutChange ==
    /\ \A channel \in ChannelMaps, id \in ChannelIds :
          ~is_live_105(device_init_105(Cur, EmptyObject, channel), id)
    /\ \A id \in DOMAIN channels, params \in ChannelParams :
          LET after == on_model_delta_other_105(Cur, id, params)
          IN  (~Has(params, "duration") \/ params.duration = channels[id].duration)
                 => /\ is_live_105(after, id) = is_live_105(Cur, id)
                    /\ Stamp(after.channels[id]) = Stamp(channels[id])

\* channel 1 changed its duration a full window ago and is still live, and
\* channel 2 has not changed since the snapshot
C28_Witness ==
    /\ DOMAIN channels = ChannelIds
    /\ is_live_105(Cur, 1)
    /\ now - channels[1].last_duration_change = LIVE_WINDOW
    /\ ~Has(channels[2], "last_duration_change")

\* C29 (v1.0.5): the cuepoints change only in a step where set_cuepoint is
\* accepted, and that step changes only the slot it names: a slot that holds
\* a cuepoint keeps it through every other operation.
C29_CuepointsFrame ==
    [][ cuepoints' # cuepoints =>
          /\ HostSetCuepoint105({1})
          /\ is_currently_active_105(Cur)
          /\ \A slot \in DOMAIN cuepoints \ {1} :
                Has(cuepoints', slot) /\ cuepoints'[slot] = cuepoints[slot]
      ]_vars

\* a cuepoint was stored, the position moved on, and the cuepoint was kept
\* through a reboot and a configuration update that left no host
C29_Witness ==
    /\ Has(cuepoints, 1)
    /\ cuepoints[1].time = << 15 >>
    /\ cur_time = << 25 >>
    /\ puts > 0
    /\ session_id = null
    /\ ~config.host
    /\ phase = "running"

\* the callback recall_cuepoint hands to load_channel
RecallCallback(play_state) == IF play_state = "pause" THEN "play_pause" ELSE "null"

\* a toggle is emitted only by a step in which a socket runs the callback of
\* an acknowledged load, and then it is the only message emitted
ToggleOnlyOnAck ==
    (\E i \in DOMAIN emitted' : emitted'[i] = << "playback:togglePlayState" >>)
       => /\ emitted' = << << "playback:togglePlayState" >> >>
          /\ \E k \in SocketIds :
                acks[k] > 0 /\ acks' = [acks EXCEPT ![k] = @ - 1]

\* C30 as stated (v1.0.5): recall_cuepoint(slot, state) on an occupied slot
\* emits exactly one loadChannel, for the saved channel at the saved time,
\* and no toggle; with 'pause' the load carries the toggle as its
\* acknowledgement callback, with 'play' it carries none; and a toggle is
\* emitted only when the device acknowledges such a load, once.
C30_RecallLoadsSaved ==
    [][ /\ \A slot \in DOMAIN cuepoints, play_state \in {"play", "pause"} :
             RecallCuepoint105(slot, play_state) =>
                /\ emitted' = << << "playback:loadChannel", cuepoints[slot].channel,
                                    Num(cuepoints[slot].time),
                                    RecallCallback(play_state) >> >>
                /\ acks' = IF play_state = "pause"
                           THEN [acks EXCEPT ![socket] = @ + 1]
                           ELSE acks
        /\ ToggleOnlyOnAck
      ]_vars

\* the start time load_channel resolves for the requested time t on a
\* channel of duration D
Resolved(D, t) ==
    IF t > D - MIN_BUFFER_TIME THEN Max(0, D - MIN_BUFFER_TIME) ELSE t

\* C30 amended (v1.0.5): recall_cuepoint(slot, state) on an occupied slot,
\* when a socket exists and the saved channel is in the channel map, emits
\* exactly one loadChannel, for the saved channel at the start time
\* load_channel resolves from the saved time, and no toggle; with 'pause'
\* the load carries the toggle as its acknowledgement callback, with 'play'
\* it carries none.  When no socket exists or the saved channel is not in
\* the map, the recall emits nothing and registers no callback.  A toggle is
\* emitted only when the device acknowledges such a load, once.
C30_RecallLoadsResolved ==
    [][ /\ \A slot \in DOMAIN cuepoints, play_state \in {"play", "pause"} :
             RecallCuepoint105(slot, play_state) =>
                LET saved == cuepoints[slot]
                IN  IF socket # undefined /\ Has(channels, saved.channel)
                    THEN /\ emitted' =
                               << << "playback:loadChannel", saved.channel,
                                     Resolved(channels[saved.channel].duration,
                                              Num(saved.time)),
                                     RecallCallback(play_state) >> >>
                         /\ acks' = IF play_state = "pause"
                                    THEN [acks EXCEPT ![socket] = @ + 1]
                                    ELSE acks
                    ELSE emitted' = << >> /\ acks' = acks
        /\ ToggleOnlyOnAck
      ]_vars

\* a cuepoint saved at 15 was recalled paused on the 20 s channel: the load
\* went out at 0, the device acknowledged it and the toggle has been sent
C30_Witness ==
    /\ Has(cuepoints, 1)
    /\ cuepoints[1].time = << 15 >>
    /\ cur_channel = cuepoints[1].channel
    /\ Has(channels, cur_channel)
    /\ channels[cur_channel].duration = 20
    /\ cur_time = << 0 >>
    /\ emitted = << << "playback:togglePlayState" >> >>

\* C25 (v1.0.0): a failed login is followed by another login attempt.  With
\* a host and credentials configured, the module running and no handler
\* having thrown, the state that a failed login leaves behind (status ERROR,
\* no open socket, no login in flight, no retry timer pending) does not
\* persist: a login attempt eventually starts, unless the module is
\* destroyed or the host or the credentials are taken out of the
\* configuration first.
C25_AlwaysRetries ==
    ( /\ phase = "running"
      /\ config.host /\ config.username /\ config.password
      /\ status = "ERROR"
      /\ faults = {}
      /\ OpenSockets(Cur) = {}
      /\ logins = {}
      /\ timers = {} )
       ~> \/ logins # {}
          \/ phase = "destroyed"
          \/ ~(config.host /\ config.username /\ config.password)

\* C31 (v1.0.5): at most one preview refresh timer is pending, in every
\* reachable state.
C31_OneRefreshTimer == Cardinality(refreshes) <= 1

\* C32 (v1.0.5): once the player is reported stopped and the preview GETs
\* on the wire have been answered, no refresh timer is pending (so that no
\* further GET starts before the next playing delta or snapshot).
C32_StopsWhenStopped ==
    (~is_playing_105(Cur) /\ fetching = 0) => refreshes = {}

\* C33 (v1.0.5): whenever no socket exists, no preview refresh timer is
\* pending.
C33_NoTimerWithoutSocket ==
    socket = undefined => refreshes = {}

\* the time of the playback:loadChannel messages a handler emitted is not
\* negative, and neither is the cur_time it leaves
StartsNotNegative(after) ==
    /\ \A i \in 1..Len(after.emitted) :
          after.emitted[i][1] = "playback:loadChannel" => after.emitted[i][3] >= 0
    /\ after.emitted # << >> => Num(after.cur_time) >= 0

\* C34 (v1.0.5): the start time _get_new_init_time resolves is never
\* negative.  In every reachable state, a load_channel at any requested time
\* and a skip_live by any d, negative ones included, emit and store a time
\* that is not negative.
C34_StartNeverNegative ==
    /\ \A id \in ChannelIds, t \in SeekTimes :
          StartsNotNegative(load_channel_105(Cur, id, t, "null"))
    /\ \A d \in SkipTimes : StartsNotNegative(skip_live_105(Cur, d))

\* C35 (v1.0.0): in every reachable state the 'stopped' feedback is lit
\* exactly when the 'playing' feedback is not.
C35_StoppedIsNotPlaying ==
    feedback_100(Cur, "stopped") = ~feedback_100(Cur, "playing")

\* the three connection phases of a state: a retry timer is pending, a login
\* POST is in flight (not aborted), a socket object exists
ConnectionPhases ==
    { p \in {"timer", "login", "socket"} :
        \/ p = "timer"  /\ timers # {}
        \/ p = "login"  /\ \E r \in logins : ~r.aborted
        \/ p = "socket" /\ socket # undefined }

\* C36 (v1.0.5): the three connection phases are mutually exclusive.  In
\* every reachable state at most one of them holds: a retry timer pending, a
\* login request in flight, a socket object existing.
C36_PhasesExclusive == Cardinality(ConnectionPhases) <= 1

\* reboot ran on a connected session: the PUT is on the wire, the socket is
\* gone and the long retry timer is the one phase that holds
C36_Witness ==
    /\ puts > 0
    /\ ConnectionPhases = {"timer"}
    /\ \E t \in timers : t.timeout = REBOOT_WAIT_TIME

\* C37 (v1.0.5): whenever the status indicator is OK, a socket exists and a
\* session token is stored.
C37_OkMeansConnected ==
    status = "OK" => (socket # undefined /\ session_id # null)

\* C38 (v1.0.5): a configuration update supersedes all earlier connection
\* activity.  After every updateConfig step no retry timer that was armed
\* before it is still pending, and no login POST that was in flight before
\* it is still awaited.
C38_UpdateSupersedes ==
    [][ HostUpdateConfig105 =>
          /\ timers' \cap timers = {}
          /\ \A r \in logins' : r.aborted \/ r \notin logins
      ]_vars

\* C39 (v1.0.5): play() and pause() are idempotent towards the device.
\* However many times play() is invoked in a row, before or after the
\* device's report on the first call has arrived, the calls send at most one
\* toggle between two reports of the device; the same holds for pause().
C39_PlayPauseIdempotent == toggles <= 1

\* C40 (v1.0.5): the published duration is that of the current channel.  In
\* every reachable state where the current channel is in the channel map
\* and a delta has changed its duration since the snapshot, the 'duration'
\* variable is the display form of that channel's stored duration.
C40_DurationPublished ==
    ( /\ Has(channels, cur_channel)
      /\ lastChange[cur_channel] # << >> )
       => variables["duration"] = _userFriendlyTime(channels[cur_channel].duration)

====
